---- MODULE Spec2Model ----
(***************************************************************************)
(* RDO Map Overlay native launcher (launcher.cpp).                         *)
(*                                                                         *)
(* The launcher is one thread: WinMain constructs an RDOLauncher, calls    *)
(* Run and destroys the object.  pc is the position of that thread.  The   *)
(* environment is the file system (which dependency files exist, whether   *)
(* debug.txt exists), the OS (whether CreateProcessW / socket / connect    *)
(* succeed) and the frontend process, which exits on its own.              *)
(*                                                                         *)
(* Time inside WaitForPort is counted in poll intervals (PollMs each):     *)
(* only sleep_for advances it, a connection attempt takes no time.         *)
(***************************************************************************)
EXTENDS Integers, Sequences, FiniteSets, TLC

\* ---------------------------------------------------------------- constants
TimeoutSeconds == 30
PollMs == 500
BackendPort == 5000
ExitOk == 0
ExitVerify == 1
ExitBackend == 2
ExitFrontend == 3

\* explicit calls of the public Cleanup method made by a client of the class
MaxCleanupCalls == 2

TimeoutTicks == (TimeoutSeconds * 1000) \div PollMs
NoCode == 0 - 1
NullHandle == 0 + 0
HandleIds == 1 .. 4

\* the four dependencies in the order VerifyInstallation checks them
DepOrder == << "Python runtime", "Electron runtime",
               "Backend application", "Frontend application" >>
Deps == { DepOrder[i] : i \in 1 .. Len(DepOrder) }

VerifyMsg == "Installation appears to be incomplete."
BackendMsg == "Failed to start backend process."
FrontendMsg == "Failed to start Electron frontend."

\* PROCESS_INFORMATION = {0}
NoProcess == [hProcess |-> NullHandle, hThread |-> NullHandle]

VARIABLES
    pc,               \* position of the launcher thread
    present,          \* dependency files that exist on disk
    debugFile,        \* debug.txt exists in the install directory
    debugMode,        \* RDOLauncher::debugMode
    console,          \* a console is allocated to the launcher
    backendProcess,   \* RDOLauncher::backendProcess
    frontendProcess,  \* RDOLauncher::frontendProcess
    created,          \* handles the OS has handed out
    closeCalls,       \* handle -> number of CloseHandle calls on it
    termCalls,        \* handle -> number of TerminateProcess calls on it
    backendState,     \* "none", "running", "terminated"
    frontendState,    \* "none", "running", "exited"
    backendWindow,    \* "none", "shown", "hidden"
    frontendWindow,   \* "none", "shown", "hidden"
    verifyResult,     \* "none", "ok", "failed"
    checked,          \* dependencies VerifyInstallation has checked, in order
    reported,         \* dependencies reported missing, in order
    backendSpawn,     \* "none", "ok", "failed"
    frontendSpawn,    \* "none", "ok", "failed"
    wfpEntered,       \* WaitForPort has been called
    elapsed,          \* poll intervals slept since WaitForPort started
    iterations,       \* loop iterations WaitForPort has started
    connects,         \* connect() calls made
    sockOpen,         \* probe sockets currently open
    ready,            \* a connect() succeeded ("Backend is ready!")
    timedOut,         \* "Timeout waiting for backend" was logged
    dialogs,          \* error dialogs shown, in order
    runResult,        \* value returned by Run, NoCode before it returns
    exitCode,         \* exit code of the launcher process, NoCode before
    cleanupCalls,     \* number of calls of Cleanup
    clientCalls,      \* explicit Cleanup calls made by the client
    spawnCalls        \* CreateProcessW calls made for each child

vars == << pc, present, debugFile, debugMode, console, backendProcess,
           frontendProcess, created, closeCalls, termCalls, backendState,
           frontendState, backendWindow, frontendWindow, verifyResult,
           checked, reported, backendSpawn, frontendSpawn, wfpEntered,
           elapsed, iterations, connects, sockOpen, ready, timedOut,
           dialogs, runResult, exitCode, cleanupCalls, clientCalls,
           spawnCalls >>

fsVars == << present, debugFile >>
verifyVars == << verifyResult, checked, reported >>
wfpVars == << wfpEntered, elapsed, iterations, connects, sockOpen, ready,
              timedOut >>
osVars == << created, closeCalls, termCalls >>
backendVars == << backendProcess, backendState, backendWindow, backendSpawn >>
frontendVars == << frontendProcess, frontendWindow, frontendSpawn >>

Init ==
    /\ pc = "ctor"
    /\ present \in SUBSET Deps
    /\ debugFile \in BOOLEAN
    /\ debugMode = FALSE
    /\ console = FALSE
    /\ backendProcess = NoProcess
    /\ frontendProcess = NoProcess
    /\ created = {}
    /\ closeCalls = [h \in HandleIds |-> 0]
    /\ termCalls = [h \in HandleIds |-> 0]
    /\ backendState = "none"
    /\ frontendState = "none"
    /\ backendWindow = "none"
    /\ frontendWindow = "none"
    /\ verifyResult = "none"
    /\ checked = << >>
    /\ reported = << >>
    /\ backendSpawn = "none"
    /\ frontendSpawn = "none"
    /\ wfpEntered = FALSE
    /\ elapsed = 0
    /\ iterations = 0
    /\ connects = 0
    /\ sockOpen = 0
    /\ ready = FALSE
    /\ timedOut = FALSE
    /\ dialogs = << >>
    /\ runResult = NoCode
    /\ exitCode = NoCode
    /\ cleanupCalls = 0
    /\ clientCalls = 0
    /\ spawnCalls = [backend |-> 0, frontend |-> 0]

\* ------------------------------------------------------------ pure helpers

\* CheckDependency: PathFileExistsW on the dependency's path
CheckDependency(p, name) == name \in p

\* VerifyInstallation checks every dependency and reports all missing ones
RECURSIVE VerifyAllFrom(_, _, _, _)
VerifyAllFrom(i, p, chk, rep) ==
    IF i > Len(DepOrder)
    THEN [ok |-> rep = << >>, checked |-> chk, reported |-> rep]
    ELSE VerifyAllFrom(i + 1, p, Append(chk, DepOrder[i]),
                       IF CheckDependency(p, DepOrder[i]) THEN rep
                       ELSE Append(rep, DepOrder[i]))

VerifyInstallationAll(p) == VerifyAllFrom(1, p, << >>, << >>)

\* VerifyInstallation from the i-th check on: the first failing
\* CheckDependency logs the dependency and returns false at once
RECURSIVE VerifyFrom(_, _, _)
VerifyFrom(i, p, chk) ==
    IF i > Len(DepOrder)
    THEN [ok |-> TRUE, checked |-> chk, reported |-> << >>]
    ELSE IF ~CheckDependency(p, DepOrder[i])
         THEN [ok |-> FALSE, checked |-> Append(chk, DepOrder[i]),
               reported |-> << DepOrder[i] >>]
         ELSE VerifyFrom(i + 1, p, Append(chk, DepOrder[i]))

VerifyInstallation(p) == VerifyFrom(1, p, << >>)

\* the handles CreateProcessW fills into PROCESS_INFORMATION: two handles
\* the OS has not handed out yet
NewProcess(cr) ==
    LET hp == CHOOSE h \in HandleIds \ cr : \A g \in HandleIds \ cr : h <= g
        ht == CHOOSE h \in HandleIds \ (cr \cup {hp}) :
                  \A g \in HandleIds \ (cr \cup {hp}) : h <= g
    IN  [hProcess |-> hp, hThread |-> ht]

\* StartProcess with the sense of showWindow inverted
WindowOfInverted(showWindow) == IF showWindow THEN "hidden" ELSE "shown"

\* StartProcess: the window is hidden unless showWindow
WindowOf(showWindow) == IF showWindow THEN "shown" ELSE "hidden"

Bump(f, h) == [f EXCEPT ![h] = @ + 1]

\* Cleanup that forgets CloseHandle(frontendProcess.hThread)
CleanupLeakThread(bp, fp, cc, tc) ==
    LET c1 == IF bp.hProcess # NullHandle
              THEN Bump(Bump(cc, bp.hProcess), bp.hThread) ELSE cc
        t1 == IF bp.hProcess # NullHandle THEN Bump(tc, bp.hProcess) ELSE tc
        c2 == IF fp.hProcess # NullHandle THEN Bump(c1, fp.hProcess) ELSE c1
    IN  [close |-> c2, term |-> t1]

\* Cleanup that closes the backend's handles without terminating it
CleanupNoTerminate(bp, fp, cc, tc) ==
    LET c1 == IF bp.hProcess # NullHandle
              THEN Bump(Bump(cc, bp.hProcess), bp.hThread) ELSE cc
        c2 == IF fp.hProcess # NullHandle
              THEN Bump(Bump(c1, fp.hProcess), fp.hThread) ELSE c1
    IN  [close |-> c2, term |-> tc]

\* Cleanup that terminates the frontend as well as the backend
CleanupKillFrontend(bp, fp, cc, tc) ==
    LET c1 == IF bp.hProcess # NullHandle
              THEN Bump(Bump(cc, bp.hProcess), bp.hThread) ELSE cc
        t1 == IF bp.hProcess # NullHandle THEN Bump(tc, bp.hProcess) ELSE tc
        c2 == IF fp.hProcess # NullHandle
              THEN Bump(Bump(c1, fp.hProcess), fp.hThread) ELSE c1
        t2 == IF fp.hProcess # NullHandle THEN Bump(t1, fp.hProcess) ELSE t1
    IN  [close |-> c2, term |-> t2]

\* Cleanup: the OS calls it makes, given the two PROCESS_INFORMATIONs and
\* the calls made so far.  The handle fields are not reset.
Cleanup(bp, fp, cc, tc) ==
    LET c1 == IF bp.hProcess # NullHandle
              THEN Bump(Bump(cc, bp.hProcess), bp.hThread) ELSE cc
        t1 == IF bp.hProcess # NullHandle THEN Bump(tc, bp.hProcess) ELSE tc
        c2 == IF fp.hProcess # NullHandle
              THEN Bump(Bump(c1, fp.hProcess), fp.hThread) ELSE c1
    IN  [close |-> c2, term |-> t1]

\* -------------------------------------------------------------- the launcher

\* RDOLauncher(): WSAStartup, install path, debug.txt check
Construct ==
    /\ pc = "ctor"
    /\ debugMode' = debugFile
    /\ console' = debugFile
    /\ pc' = "verify"
    /\ UNCHANGED << fsVars, backendVars, frontendVars, frontendState, osVars,
                    verifyVars, wfpVars, dialogs, runResult, exitCode,
                    cleanupCalls, clientCalls, spawnCalls >>

\* Run reports every verification outcome as success
RunVerifyIgnored ==
    /\ pc = "verify"
    /\ LET r == VerifyInstallation(present) IN
        /\ checked' = r.checked
        /\ reported' = r.reported
        /\ verifyResult' = IF r.ok THEN "ok" ELSE "failed"
        /\ pc' = "start_backend"
        /\ UNCHANGED << dialogs, runResult >>
    /\ UNCHANGED << fsVars, debugMode, console, backendVars, frontendVars,
                    frontendState, osVars, wfpVars, exitCode, cleanupCalls,
                    clientCalls, spawnCalls >>

\* Run: if (!VerifyInstallation()) { ShowErrorDialog; return 1; }
RunVerify ==
    /\ pc = "verify"
    /\ LET r == VerifyInstallation(present) IN
        /\ checked' = r.checked
        /\ reported' = r.reported
        /\ \/ /\ r.ok
              /\ verifyResult' = "ok"
              /\ pc' = "start_backend"
              /\ UNCHANGED << dialogs, runResult >>
           \/ /\ ~r.ok
              /\ verifyResult' = "failed"
              /\ dialogs' = Append(dialogs, VerifyMsg)
              /\ runResult' = ExitVerify
              /\ pc' = "dtor"
    /\ UNCHANGED << fsVars, debugMode, console, backendVars, frontendVars,
                    frontendState, osVars, wfpVars, exitCode, cleanupCalls,
                    clientCalls, spawnCalls >>

\* the spawn of the backend succeeded: StartBackend goes on to WaitForPort
BackendSpawned(next) ==
    /\ backendProcess' = NewProcess(created)
    /\ created' = created \cup { backendProcess'.hProcess,
                                 backendProcess'.hThread }
    /\ backendState' = "running"
    /\ backendWindow' = WindowOf(debugMode)
    /\ backendSpawn' = "ok"
    /\ spawnCalls' = [spawnCalls EXCEPT !.backend = @ + 1]
    /\ pc' = next
    /\ UNCHANGED << dialogs, runResult >>

\* the spawn of the backend failed and no dialog is shown
BackendFailedSilent ==
    /\ backendSpawn' = "failed"
    /\ spawnCalls' = [spawnCalls EXCEPT !.backend = @ + 1]
    /\ UNCHANGED << backendProcess, created, backendState, backendWindow,
                    dialogs >>

\* the spawn of the backend failed: dialog, StartBackend returns false
BackendFailed ==
    /\ backendSpawn' = "failed"
    /\ spawnCalls' = [spawnCalls EXCEPT !.backend = @ + 1]
    /\ dialogs' = Append(dialogs, BackendMsg)
    /\ UNCHANGED << backendProcess, created, backendState, backendWindow >>

\* StartBackend returns without calling WaitForPort
StartBackendNoWait ==
    /\ pc = "start_backend"
    /\ \/ BackendSpawned("delay")
       \/ /\ BackendFailed
          /\ runResult' = ExitBackend
          /\ pc' = "dtor"
    /\ UNCHANGED wfpVars
    /\ UNCHANGED << fsVars, debugMode, console, frontendVars, frontendState,
                    closeCalls, termCalls, verifyVars, exitCode,
                    cleanupCalls, clientCalls >>

\* Run ignores the result of StartBackend
StartBackendIgnored ==
    /\ pc = "start_backend"
    /\ \/ /\ BackendSpawned("wfp_socket")
          /\ wfpEntered' = TRUE
       \/ /\ BackendFailed
          /\ UNCHANGED << runResult, wfpEntered >>
          /\ pc' = "delay"
    /\ UNCHANGED << elapsed, iterations, connects, sockOpen, ready, timedOut >>
    /\ UNCHANGED << fsVars, debugMode, console, frontendVars, frontendState,
                    closeCalls, termCalls, verifyVars, exitCode,
                    cleanupCalls, clientCalls >>

\* StartBackend up to the call of WaitForPort, and Run's
\* if (!StartBackend()) return 2;
StartBackend ==
    /\ pc = "start_backend"
    /\ \/ /\ BackendSpawned("wfp_socket")
          /\ wfpEntered' = TRUE
       \/ /\ BackendFailed
          /\ runResult' = ExitBackend
          /\ pc' = "dtor"
          /\ UNCHANGED wfpEntered
    /\ UNCHANGED << elapsed, iterations, connects, sockOpen, ready, timedOut >>
    /\ UNCHANGED << fsVars, debugMode, console, frontendVars, frontendState,
                    closeCalls, termCalls, verifyVars, exitCode,
                    cleanupCalls, clientCalls >>

wfpFrame == << fsVars, debugMode, console, backendVars, frontendVars,
               frontendState, osVars, verifyVars, exitCode, cleanupCalls,
               clientCalls, spawnCalls,
               wfpEntered >>

\* WaitForPort: top of the loop, socket()
WfpSocket ==
    /\ pc = "wfp_socket"
    /\ iterations' = iterations + 1
    /\ \/ /\ sockOpen' = sockOpen + 1      \* sock != INVALID_SOCKET
          /\ pc' = "wfp_connect"
       \/ /\ sockOpen' = sockOpen          \* INVALID_SOCKET
          /\ pc' = "wfp_check"
    /\ UNCHANGED << elapsed, connects, ready, timedOut, dialogs, runResult >>
    /\ UNCHANGED wfpFrame

\* after a successful connect the loop carries on to the timeout check
WfpConnectNoBreak ==
    /\ pc = "wfp_connect"
    /\ connects' = connects + 1
    /\ sockOpen' = sockOpen - 1
    /\ \/ ready' = TRUE
       \/ UNCHANGED ready
    /\ pc' = "wfp_check"
    /\ UNCHANGED << elapsed, iterations, timedOut, dialogs, runResult >>
    /\ UNCHANGED wfpFrame

\* a failed connect leaves the probe socket open
WfpConnectLeak ==
    /\ pc = "wfp_connect"
    /\ connects' = connects + 1
    /\ \/ /\ ready' = TRUE
          /\ sockOpen' = sockOpen - 1
          /\ pc' = "delay"
       \/ /\ UNCHANGED << ready, sockOpen >>
          /\ pc' = "wfp_check"
    /\ UNCHANGED << elapsed, iterations, timedOut, dialogs, runResult >>
    /\ UNCHANGED wfpFrame

\* WaitForPort: connect(); on success closesocket, log, break (StartBackend
\* then returns true); otherwise closesocket
WfpConnect ==
    /\ pc = "wfp_connect"
    /\ connects' = connects + 1
    /\ sockOpen' = sockOpen - 1
    /\ \/ /\ ready' = TRUE
          /\ pc' = "delay"
       \/ /\ UNCHANGED ready
          /\ pc' = "wfp_check"
    /\ UNCHANGED << elapsed, iterations, timedOut, dialogs, runResult >>
    /\ UNCHANGED wfpFrame

\* the timeout is taken at elapsed >= timeout
WfpCheckTimeoutGeq ==
    /\ pc = "wfp_check"
    /\ \/ /\ elapsed >= TimeoutTicks
          /\ timedOut' = TRUE
          /\ pc' = "delay"
       \/ /\ ~(elapsed >= TimeoutTicks)
          /\ UNCHANGED timedOut
          /\ pc' = "wfp_sleep"
    /\ UNCHANGED << elapsed, iterations, connects, sockOpen, ready, dialogs,
                    runResult >>
    /\ UNCHANGED wfpFrame

\* a timeout is treated like a failed spawn
WfpCheckTimeoutFatal ==
    /\ pc = "wfp_check"
    /\ \/ /\ elapsed > TimeoutTicks
          /\ timedOut' = TRUE
          /\ dialogs' = Append(dialogs, BackendMsg)
          /\ runResult' = ExitBackend
          /\ pc' = "dtor"
       \/ /\ ~(elapsed > TimeoutTicks)
          /\ UNCHANGED << timedOut, dialogs, runResult >>
          /\ pc' = "wfp_sleep"
    /\ UNCHANGED << elapsed, iterations, connects, sockOpen, ready >>
    /\ UNCHANGED wfpFrame

\* WaitForPort: if (now - startTime > timeout) { log; break; }
\* (StartBackend then returns true)
WfpCheckTimeout ==
    /\ pc = "wfp_check"
    /\ \/ /\ elapsed > TimeoutTicks
          /\ timedOut' = TRUE
          /\ pc' = "delay"
       \/ /\ ~(elapsed > TimeoutTicks)
          /\ UNCHANGED timedOut
          /\ pc' = "wfp_sleep"
    /\ UNCHANGED << elapsed, iterations, connects, sockOpen, ready, dialogs,
                    runResult >>
    /\ UNCHANGED wfpFrame

\* WaitForPort: sleep_for(500 ms), back to the top of the loop
WfpSleep ==
    /\ pc = "wfp_sleep"
    /\ elapsed' = elapsed + 1
    /\ pc' = "wfp_socket"
    /\ UNCHANGED << iterations, connects, sockOpen, ready, timedOut, dialogs,
                    runResult >>
    /\ UNCHANGED wfpFrame

\* Run: sleep_for(1 s) between StartBackend and StartFrontend
Delay ==
    /\ pc = "delay"
    /\ pc' = "start_frontend"
    /\ UNCHANGED << fsVars, debugMode, console, backendVars, frontendVars,
                    frontendState, osVars, verifyVars, wfpVars, dialogs,
                    runResult, exitCode, cleanupCalls, clientCalls,
                    spawnCalls >>

runFrame == << fsVars, debugMode, console, backendVars, osVars, verifyVars,
               wfpVars, exitCode, cleanupCalls, clientCalls, spawnCalls >>

\* the effect of one call of Cleanup on the OS
DoCleanup ==
    LET r == Cleanup(backendProcess, frontendProcess, closeCalls, termCalls)
    IN  /\ closeCalls' = r.close
        /\ termCalls' = r.term
        /\ backendState' = IF backendProcess.hProcess # NullHandle
                           THEN "terminated" ELSE backendState
        /\ cleanupCalls' = cleanupCalls + 1
        /\ UNCHANGED << backendProcess, frontendProcess, created >>

\* Run returns the backend's failure code when the frontend fails to start
StartFrontendWrongCode ==
    /\ pc = "start_frontend"
    /\ spawnCalls' = [spawnCalls EXCEPT !.frontend = @ + 1]
    /\ \/ /\ frontendProcess' = NewProcess(created)
          /\ created' = created \cup { frontendProcess'.hProcess,
                                       frontendProcess'.hThread }
          /\ frontendState' = "running"
          /\ frontendWindow' = WindowOf(TRUE)
          /\ frontendSpawn' = "ok"
          /\ pc' = "wait_exit"
          /\ UNCHANGED << dialogs, runResult >>
       \/ /\ frontendSpawn' = "failed"
          /\ dialogs' = Append(dialogs, FrontendMsg)
          /\ runResult' = ExitBackend
          /\ pc' = "dtor"
          /\ UNCHANGED << frontendProcess, created, frontendState,
                          frontendWindow >>
    /\ UNCHANGED << fsVars, debugMode, console, backendVars, closeCalls,
                    termCalls, verifyVars, wfpVars, exitCode, cleanupCalls,
                    clientCalls >>

\* a failed frontend spawn is attempted a second time
StartFrontendRetry ==
    /\ pc = "start_frontend"
    /\ spawnCalls' = [spawnCalls EXCEPT !.frontend = @ + 1]
    /\ \/ /\ frontendProcess' = NewProcess(created)
          /\ created' = created \cup { frontendProcess'.hProcess,
                                       frontendProcess'.hThread }
          /\ frontendState' = "running"
          /\ frontendWindow' = WindowOf(TRUE)
          /\ frontendSpawn' = "ok"
          /\ pc' = "wait_exit"
          /\ UNCHANGED << dialogs, runResult >>
       \/ /\ spawnCalls.frontend = 0
          /\ frontendSpawn' = "failed"
          /\ pc' = "start_frontend"
          /\ UNCHANGED << frontendProcess, created, frontendState,
                          frontendWindow, dialogs, runResult >>
       \/ /\ spawnCalls.frontend > 0
          /\ frontendSpawn' = "failed"
          /\ dialogs' = Append(dialogs, FrontendMsg)
          /\ runResult' = ExitFrontend
          /\ pc' = "dtor"
          /\ UNCHANGED << frontendProcess, created, frontendState,
                          frontendWindow >>
    /\ UNCHANGED << fsVars, debugMode, console, backendVars, closeCalls,
                    termCalls, verifyVars, wfpVars, exitCode, cleanupCalls,
                    clientCalls >>

\* StartFrontend, and Run's if (!StartFrontend()) return 3;
StartFrontend ==
    /\ pc = "start_frontend"
    /\ spawnCalls' = [spawnCalls EXCEPT !.frontend = @ + 1]
    /\ \/ /\ frontendProcess' = NewProcess(created)
          /\ created' = created \cup { frontendProcess'.hProcess,
                                       frontendProcess'.hThread }
          /\ frontendState' = "running"
          /\ frontendWindow' = WindowOf(TRUE)
          /\ frontendSpawn' = "ok"
          /\ pc' = "wait_exit"
          /\ UNCHANGED << dialogs, runResult >>
       \/ /\ frontendSpawn' = "failed"
          /\ dialogs' = Append(dialogs, FrontendMsg)
          /\ runResult' = ExitFrontend
          /\ pc' = "dtor"
          /\ UNCHANGED << frontendProcess, created, frontendState,
                          frontendWindow >>
    /\ UNCHANGED << fsVars, debugMode, console, backendVars, closeCalls,
                    termCalls, verifyVars, wfpVars, exitCode, cleanupCalls,
                    clientCalls >>

\* WaitForExit returns without waiting for the frontend
WaitForExitNoWait ==
    /\ pc = "wait_exit"
    /\ runResult' = ExitOk
    /\ pc' = "dtor"
    /\ UNCHANGED << runFrame, frontendVars, frontendState, dialogs >>

\* Run calls Cleanup itself after WaitForExit, before it returns 0
WaitForExitThenCleanup ==
    /\ pc = "wait_exit"
    /\ frontendProcess.hProcess # NullHandle => frontendState = "exited"
    /\ DoCleanup
    /\ runResult' = ExitOk
    /\ pc' = "dtor"
    /\ UNCHANGED << fsVars, debugMode, console, backendWindow, backendSpawn,
                    frontendWindow, frontendSpawn, frontendState, verifyVars,
                    wfpVars, dialogs, exitCode, clientCalls, spawnCalls >>

\* WaitForExit (WaitForSingleObject(frontend, INFINITE) returns once the
\* frontend has exited), then Run's return 0
WaitForExit ==
    /\ pc = "wait_exit"
    /\ frontendProcess.hProcess # NullHandle => frontendState = "exited"
    /\ runResult' = ExitOk
    /\ pc' = "dtor"
    /\ UNCHANGED << runFrame, frontendVars, frontendState, dialogs >>

\* the frontend process exits on its own
FrontendExits ==
    /\ frontendState = "running"
    /\ frontendState' = "exited"
    /\ UNCHANGED << pc, runFrame, frontendVars, dialogs, runResult >>

\* ~RDOLauncher(): Cleanup, WSACleanup, FreeConsole in debug mode; then
\* WinMain returns Run's value as the exit code of the process
Destructor ==
    /\ pc = "dtor"
    /\ DoCleanup
    /\ console' = FALSE
    /\ exitCode' = runResult
    /\ pc' = "done"
    /\ UNCHANGED << fsVars, debugMode, backendWindow, backendSpawn,
                    frontendWindow, frontendSpawn, frontendState, verifyVars,
                    wfpVars, dialogs, runResult, clientCalls, spawnCalls >>

\* a client of the class calls the public method Cleanup after Run
ClientCleanup ==
    /\ pc = "dtor"
    /\ clientCalls < MaxCleanupCalls
    /\ clientCalls' = clientCalls + 1
    /\ DoCleanup
    /\ UNCHANGED << pc, fsVars, debugMode, console, backendWindow,
                    backendSpawn, frontendWindow, frontendSpawn,
                    frontendState, verifyVars, wfpVars, dialogs, runResult,
                    exitCode, spawnCalls >>

\* the steps of the launcher thread
LauncherStep ==
    \/ Construct
    \/ RunVerify
    \/ StartBackend
    \/ WfpSocket
    \/ WfpConnect
    \/ WfpCheckTimeout
    \/ WfpSleep
    \/ Delay
    \/ StartFrontend
    \/ WaitForExit
    \/ Destructor

Next == LauncherStep \/ FrontendExits

\* WinMain: RDOLauncher launcher; return launcher.Run();
Spec == Init /\ [][Next]_vars

\* the launcher object driven by a client that also calls Cleanup itself
NextClient == Next \/ ClientCleanup

SpecClient == Init /\ [][NextClient]_vars

\* the launcher thread keeps running; the frontend need not ever exit
FairSpec == Init /\ [][Next]_vars /\ WF_vars(LauncherStep)

TypeOK ==
    /\ pc \in { "ctor", "verify", "start_backend", "wfp_socket",
                "wfp_connect", "wfp_check", "wfp_sleep", "delay",
                "start_frontend", "wait_exit", "dtor", "done" }
    /\ runResult \in { NoCode, ExitOk, ExitVerify, ExitBackend, ExitFrontend }
    /\ sockOpen \in 0 .. 1
    /\ elapsed \in 0 .. TimeoutTicks + 1
\* ------------------------------------------------------------------ claims

WfpPcs == { "wfp_socket", "wfp_connect", "wfp_check", "wfp_sleep" }
FrontendCreated == frontendProcess.hProcess # NullHandle
BackendCreated == backendProcess.hProcess # NullHandle
BackendTerminated == BackendCreated /\ termCalls[backendProcess.hProcess] > 0
BackendDialogShown == \E i \in 1 .. Len(dialogs) : dialogs[i] = BackendMsg

\* C1 as stated: whenever the frontend handle exists, the backend handle
\* exists and a connection attempt to the backend port has succeeded.
C1_FrontendOnlyAfterReady ==
    FrontendCreated => BackendCreated /\ ready

\* C1 amended: whenever the frontend handle exists, the backend handle
\* exists and WaitForPort has been entered and has returned, with a
\* successful connect or with the timeout.
C1_FrontendOnlyAfterWait ==
    FrontendCreated =>
        /\ BackendCreated
        /\ backendSpawn = "ok"
        /\ wfpEntered
        /\ ready \/ timedOut
        /\ pc \notin WfpPcs

C1_Witness == FrontendCreated /\ timedOut /\ ~ready

\* C2 as stated: TerminateProcess is applied to the backend only after the
\* frontend was spawned and has exited.
C2_TerminateOnlyAfterFrontendExit ==
    BackendTerminated => frontendSpawn = "ok" /\ frontendState = "exited"

\* C2 amended: TerminateProcess is applied to the backend only by the
\* destructor after Run has returned, and then either the frontend was
\* spawned and has exited (Run returned 0) or the frontend spawn failed
\* (Run returned 3); never while a spawned frontend is running.
C2_TerminateOnlyAtDestruction ==
    BackendTerminated =>
        /\ pc = "done"
        /\ frontendState # "running"
        /\ \/ /\ runResult = ExitOk
              /\ frontendSpawn = "ok"
              /\ frontendState = "exited"
           \/ /\ runResult = ExitFrontend
              /\ frontendSpawn = "failed"
              /\ frontendState = "none"

C2_Witness == BackendTerminated /\ frontendSpawn = "failed"

\* C3: Cleanup is idempotent: over any number of calls each handle is
\* terminated at most once and closed at most once, and with both handles
\* unset Cleanup makes no OS call.
C3_CleanupIdempotent ==
    /\ \A h \in HandleIds : closeCalls[h] <= 1 /\ termCalls[h] <= 1
    /\ (~BackendCreated /\ ~FrontendCreated) =>
           \A h \in HandleIds : closeCalls[h] = 0 /\ termCalls[h] = 0

\* C4: on every exit path each handle created by a successful spawn is
\* closed exactly once before the process ends, and a handle that was never
\* created is never closed.
C4_HandlesClosedOnce ==
    /\ \A h \in HandleIds :
           /\ closeCalls[h] <= 1
           /\ closeCalls[h] > 0 => h \in created
    /\ pc = "done" =>
           /\ exitCode \in { ExitOk, ExitVerify, ExitBackend, ExitFrontend }
           /\ \A h \in created : closeCalls[h] = 1

C4_Witness ==
    /\ pc = "done"
    /\ exitCode = ExitOk
    /\ Cardinality(created) = 4
    /\ \A h \in created : closeCalls[h] = 1

\* C5: Run returns 1 iff verification failed, 2 iff verification succeeded
\* and the backend spawn failed, 3 iff both succeeded and the frontend spawn
\* failed, 0 iff all three succeeded and the frontend has exited; the steps
\* happen in the order verify, backend, frontend and no other value occurs.
C5_RunResult ==
    /\ runResult \in { NoCode, ExitOk, ExitVerify, ExitBackend, ExitFrontend }
    /\ backendSpawn # "none" => verifyResult = "ok"
    /\ frontendSpawn # "none" => backendSpawn = "ok"
    /\ (pc \in { "dtor", "done" }) <=> (runResult # NoCode)
    /\ runResult # NoCode =>
        /\ runResult = ExitVerify <=> verifyResult = "failed"
        /\ runResult = ExitBackend <=>
               (verifyResult = "ok" /\ backendSpawn = "failed")
        /\ runResult = ExitFrontend <=>
               (verifyResult = "ok" /\ backendSpawn = "ok"
                /\ frontendSpawn = "failed")
        /\ runResult = ExitOk <=>
               (verifyResult = "ok" /\ backendSpawn = "ok"
                /\ frontendSpawn = "ok" /\ frontendState = "exited")

C5_Witness == runResult = ExitFrontend /\ frontendSpawn = "failed"

\* C6: if the backend spawn fails, no frontend spawn is attempted, the
\* frontend handle stays unset, WaitForPort is never entered, and the
\* process exits with code 2.
C6_BackendFailureStops ==
    backendSpawn = "failed" =>
        /\ frontendSpawn = "none"
        /\ frontendProcess = NoProcess
        /\ ~wfpEntered
        /\ iterations = 0
        /\ pc \in { "dtor", "done" }
        /\ runResult = ExitBackend
        /\ pc = "done" => exitCode = ExitBackend

C6_Witness == backendSpawn = "failed" /\ pc = "done" /\ exitCode = ExitBackend

\* C7: a readiness timeout is not an error: once WaitForPort has timed out
\* the backend dialog is never shown, Run never returns 2, and Run is about
\* to invoke StartFrontend or has invoked it; and after a successful
\* backend spawn StartFrontend is eventually invoked.
C7_TimeoutInv ==
    timedOut =>
        /\ backendSpawn = "ok"
        /\ ~ready
        /\ ~BackendDialogShown
        /\ runResult # ExitBackend
        /\ exitCode # ExitBackend
        /\ pc \in { "delay", "start_frontend" } \/ frontendSpawn # "none"

C7_ReadinessAdvisory ==
    /\ []C7_TimeoutInv
    /\ (backendSpawn = "ok") ~> (frontendSpawn # "none")

C7_Witness == timedOut /\ frontendSpawn = "ok" /\ dialogs = << >>

\* C8: VerifyInstallation returns true iff all four dependencies are
\* present; when it returns false it has checked the dependencies in order
\* up to the first absent one and reports exactly that one.
C8_VerifyFirstMissing ==
    verifyResult # "none" =>
        LET missing == { i \in 1 .. Len(DepOrder) : DepOrder[i] \notin present }
        IN  /\ verifyResult = "ok" <=> present = Deps
            /\ verifyResult = "ok" => reported = << >> /\ checked = DepOrder
            /\ verifyResult = "failed" =>
                   LET f == CHOOSE i \in missing : \A j \in missing : i <= j
                   IN  /\ reported = << DepOrder[f] >>
                       /\ checked = SubSeq(DepOrder, 1, f)

C8_Witness ==
    /\ verifyResult = "failed"
    /\ present = { "Python runtime", "Backend application" }
    /\ reported = << "Electron runtime" >>

\* C9 as stated: when WaitForPort times out, the elapsed time is exactly
\* timeoutSeconds.
C9_TimeoutExact ==
    timedOut => elapsed = TimeoutTicks

\* C9 amended: when WaitForPort times out, the elapsed time is exactly one
\* poll interval more than timeoutSeconds, the loop has run
\* 2 * timeoutSeconds + 2 iterations one poll interval apart, and no error
\* reaches the caller; WaitForPort always returns.
C9_TimeoutInv ==
    /\ iterations <= TimeoutTicks + 2
    /\ elapsed <= TimeoutTicks + 1
    /\ wfpEntered =>
           iterations = IF pc = "wfp_socket" THEN elapsed ELSE elapsed + 1
    /\ timedOut =>
           /\ elapsed = TimeoutTicks + 1
           /\ iterations = TimeoutTicks + 2
           /\ runResult # ExitBackend
           /\ ~BackendDialogShown

C9_TimeoutOnePollLate ==
    /\ []C9_TimeoutInv
    /\ wfpEntered ~> (ready \/ timedOut)

C9_Witness == timedOut /\ elapsed = TimeoutTicks + 1 /\ pc = "done"

\* C10: the step in which a connect succeeds leaves WaitForPort at once
\* with the probe socket closed, and from then on there is no further
\* iteration, connect, sleep or timeout report, whatever the elapsed time.
C10_ReadyInv ==
    ready => ~timedOut /\ pc \notin WfpPcs /\ sockOpen = 0

C10_ReturnsOnSuccess ==
    /\ []C10_ReadyInv
    /\ [][ready' =>
            /\ iterations' = iterations
            /\ elapsed' = elapsed
            /\ timedOut' = timedOut
            /\ ready \/ (pc = "wfp_connect" /\ pc' = "delay"
                         /\ connects' = connects + 1)
            /\ ready => connects' = connects]_vars

C10_Witness == ready /\ elapsed = TimeoutTicks + 1 /\ pc = "done"

\* C11: whenever the launcher process has ended and the backend had been
\* spawned, TerminateProcess has been applied to the backend, also when the
\* frontend spawn failed (exit code 3).
C11_BackendAlwaysTerminated ==
    (pc = "done" /\ backendSpawn = "ok") =>
        /\ BackendTerminated
        /\ termCalls[backendProcess.hProcess] = 1
        /\ backendState = "terminated"
        /\ exitCode \in { ExitOk, ExitFrontend }

C11_Witness ==
    pc = "done" /\ exitCode = ExitFrontend /\ backendState = "terminated"

\* C12 as stated: once Run has returned 0, Cleanup has run, the backend has
\* been terminated and every created handle has been closed.
C12_CleanupBeforeReturn ==
    runResult = ExitOk =>
        /\ cleanupCalls >= 1
        /\ BackendTerminated
        /\ \A h \in created : closeCalls[h] = 1

\* C12 amended: when Run has returned 0 and the destructor has not run yet,
\* the frontend has exited but Cleanup has not run, the backend is still
\* running and no handle is closed; once the process has ended with code 0
\* Cleanup has run exactly once, the backend is terminated and every
\* created handle is closed (WaitForExit, return 0, then Cleanup).
C12_CleanupAfterReturn ==
    /\ (pc = "dtor" /\ runResult = ExitOk) =>
           /\ frontendState = "exited"
           /\ cleanupCalls = 0
           /\ backendState = "running"
           /\ \A h \in HandleIds : closeCalls[h] = 0 /\ termCalls[h] = 0
    /\ (pc = "done" /\ exitCode = ExitOk) =>
           /\ cleanupCalls = 1
           /\ BackendTerminated
           /\ Cardinality(created) = 4
           /\ \A h \in created : closeCalls[h] = 1

C12_Witness ==
    pc = "dtor" /\ runResult = ExitOk /\ cleanupCalls = 0 /\ BackendCreated

\* C13: while the frontend is running the launcher is blocked in
\* WaitForExit: Run has not returned, nothing is terminated and no handle
\* is closed; and once the frontend has exited the launcher eventually ends
\* with exit code 0, the backend terminated and every handle closed.
C13_RunningInv ==
    frontendState = "running" =>
        /\ pc = "wait_exit"
        /\ runResult = NoCode
        /\ exitCode = NoCode
        /\ cleanupCalls = 0
        /\ backendState = "running"
        /\ \A h \in HandleIds : closeCalls[h] = 0 /\ termCalls[h] = 0

C13_LifetimeBound ==
    /\ []C13_RunningInv
    /\ (frontendState = "exited") ~>
           (/\ pc = "done"
            /\ exitCode = ExitOk
            /\ BackendTerminated
            /\ \A h \in created : closeCalls[h] = 1)

C13_Witness ==
    /\ pc = "done"
    /\ frontendState = "exited"
    /\ exitCode = ExitOk
    /\ backendState = "terminated"

\* C14: if VerifyInstallation fails, no child process is spawned or even
\* attempted, no port probe is made, both handles stay unset, exactly the
\* verification dialog is shown and the process exits with code 1.
C14_VerifyFailureStops ==
    verifyResult = "failed" =>
        /\ spawnCalls = [backend |-> 0, frontend |-> 0]
        /\ backendSpawn = "none" /\ frontendSpawn = "none"
        /\ backendState = "none" /\ frontendState = "none"
        /\ backendProcess = NoProcess /\ frontendProcess = NoProcess
        /\ created = {}
        /\ ~wfpEntered /\ iterations = 0 /\ connects = 0
        /\ dialogs = << VerifyMsg >>
        /\ pc \in { "dtor", "done" }
        /\ runResult = ExitVerify
        /\ pc = "done" => exitCode = ExitVerify

C14_Witness ==
    /\ verifyResult = "failed"
    /\ pc = "done"
    /\ exitCode = ExitVerify
    /\ dialogs = << VerifyMsg >>

\* C15: the three messages are pairwise distinct; a run that returns 1, 2
\* or 3 has shown exactly the one dialog of that failure kind, and a run
\* that has not failed, or returns 0 (also after a readiness timeout), has
\* shown none.
C15_OneDialogPerFailure ==
    /\ VerifyMsg # BackendMsg /\ VerifyMsg # FrontendMsg
    /\ BackendMsg # FrontendMsg
    /\ runResult \in { NoCode, ExitOk } => dialogs = << >>
    /\ runResult = ExitVerify => dialogs = << VerifyMsg >>
    /\ runResult = ExitBackend => dialogs = << BackendMsg >>
    /\ runResult = ExitFrontend => dialogs = << FrontendMsg >>
    /\ pc = "done" => exitCode = runResult

C15_Witness ==
    pc = "done" /\ exitCode = ExitBackend /\ dialogs = << BackendMsg >>

\* C16: TerminateProcess is only ever applied to the backend's process
\* handle, never to a handle of the frontend; the frontend starts running
\* by StartFrontend's spawn and stops running only by its own exit, a step
\* in which the launcher does nothing.
C16_TermInv ==
    /\ \A h \in HandleIds :
           termCalls[h] > 0 => BackendCreated /\ h = backendProcess.hProcess
    /\ FrontendCreated =>
           /\ termCalls[frontendProcess.hProcess] = 0
           /\ termCalls[frontendProcess.hThread] = 0

C16_FrontendNeverTerminated ==
    /\ []C16_TermInv
    /\ [][frontendState' # frontendState =>
            \/ /\ frontendState = "none"
               /\ frontendState' = "running"
               /\ pc = "start_frontend"
            \/ /\ frontendState = "running"
               /\ frontendState' = "exited"
               /\ pc' = pc
               /\ termCalls' = termCalls
               /\ closeCalls' = closeCalls]_vars

C16_Witness ==
    /\ pc = "done"
    /\ FrontendCreated
    /\ closeCalls[frontendProcess.hProcess] = 1
    /\ closeCalls[frontendProcess.hThread] = 1
    /\ termCalls[frontendProcess.hProcess] = 0

\* C17: CreateProcessW is called at most once for the backend and at most
\* once for the frontend; a recorded spawn outcome never changes, and each
\* PROCESS_INFORMATION is assigned at most once, from its initial value.
C17_AttemptsInv ==
    /\ spawnCalls.backend <= 1
    /\ spawnCalls.frontend <= 1
    /\ spawnCalls.backend = 1 <=> backendSpawn # "none"
    /\ spawnCalls.frontend = 1 <=> frontendSpawn # "none"

C17_NoRetries ==
    /\ []C17_AttemptsInv
    /\ [][/\ backendProcess' # backendProcess =>
                 backendProcess = NoProcess /\ spawnCalls.backend = 0
          /\ frontendProcess' # frontendProcess =>
                 frontendProcess = NoProcess /\ spawnCalls.frontend = 0
          /\ backendSpawn # "none" => backendSpawn' = backendSpawn
          /\ frontendSpawn # "none" => frontendSpawn' = frontendSpawn]_vars

C17_Witness ==
    /\ pc = "done"
    /\ spawnCalls = [backend |-> 1, frontend |-> 1]
    /\ frontendSpawn = "failed"

\* C18: the backend window is hidden iff debugMode is false, that is shown
\* iff debug.txt was present at startup; the frontend window is shown in
\* both modes; debugMode is set by the constructor and never changes later.
C18_WindowInv ==
    /\ backendSpawn = "ok" => backendWindow \in { "shown", "hidden" }
    /\ backendWindow # "none" =>
           /\ backendWindow = "hidden" <=> ~debugMode
           /\ backendWindow = "shown" <=> debugFile
    /\ frontendSpawn = "ok" => frontendWindow = "shown"
    /\ frontendWindow \in { "none", "shown" }
    /\ pc # "ctor" => debugMode = debugFile

C18_WindowVisibility ==
    /\ []C18_WindowInv
    /\ [][pc # "ctor" => debugMode' = debugMode]_vars

C18_Witness ==
    ~debugMode /\ backendWindow = "hidden" /\ frontendWindow = "shown"

\* C19: a probe socket is open exactly between socket() and the connect
\* attempt made on it: at most one is open at any time and none is open at
\* the timeout check, during the sleep, at the next socket() or after
\* WaitForPort has returned, on the success, failure and timeout paths.
C19_NoSocketLeak ==
    /\ sockOpen = IF pc = "wfp_connect" THEN 1 ELSE 0
    /\ connects <= iterations
    /\ pc = "wfp_connect" => connects < iterations

C19_Witness ==
    pc = "done" /\ timedOut /\ connects = TimeoutTicks + 2 /\ sockOpen = 0
====
